---- MODULE Spec2Model ----
(***************************************************************************)
(* Model of the terrain editor's input handling and per-frame update:      *)
(* Game::process_event / Game::update_and_render / Game::draw_editor       *)
(* (src/src/main.rs) and RawInput, Event and Key (src/src/input.rs).       *)
(*                                                                         *)
(* Numbers.  Pixel and scroll quantities are integers; the inputs are      *)
(* multiples of every scale factor, so the f32 division by scale_factor is *)
(* the exact integer quotient.  The brush size is held in tenths           *)
(* (0.1 is 1, 200.0 is 2000), so `size - y * 1.5` is `size - 15 * y`.       *)
(***************************************************************************)
EXTENDS Integers, Sequences, FiniteSets, TLC

\* -------------------------------------------------------------- bounds

\* Platform events handled between two frames.
MaxEvents == 3
\* Number of frames drawn in a run.
MaxFrames == 2

\* ----------------------------------------------------- program constants

\* clamp(0.1, 200.0) of the brush size, in tenths.
BrushMin == 1
BrushMax == 2000

\* ------------------------------------------------------------ vectors

VecAdd(a, b) == <<a[1] + b[1], a[2] + b[2]>>

\* Sign-symmetric exact quotient (the inputs are multiples of s).
Quot(a, s) == IF a >= 0 THEN a \div s ELSE -((-a) \div s)

VecDiv(v, s) == <<Quot(v[1], s), Quot(v[2], s)>>

Clamp(x, lo, hi) == IF x < lo THEN lo ELSE IF x > hi THEN hi ELSE x

\* utils::vec2_infinity(): the "no cursor" sentinel.
vec2_infinity == [finite |-> FALSE, at |-> <<0, 0>>]

FinitePoint(p) == [finite |-> TRUE, at |-> p]

\* vec2_to_egui_pos2
vec2_to_egui_pos2(vec2) == [x |-> vec2[1], y |-> vec2[2]]

\* vec2_to_egui_vec2
vec2_to_egui_vec2(vec2) == [x |-> vec2[1], y |-> vec2[2]]

\* ---------------------------------------------------------- modifiers

NoModifiers == [alt |-> FALSE, ctrl |-> FALSE, shift |-> FALSE, logo |-> FALSE]

\* egui::Modifiers::default()
NoGuiModifiers ==
    [alt |-> FALSE, ctrl |-> FALSE, shift |-> FALSE, mac_cmd |-> FALSE, command |-> FALSE]

\* impl From<Modifiers> for egui::Modifiers; mac is cfg!(target_os = "macos").
ModifiersInto(src, mac) ==
    [alt     |-> src.alt,
     ctrl    |-> src.ctrl,
     shift   |-> src.shift,
     command |-> IF mac THEN src.logo ELSE src.ctrl,
     mac_cmd |-> IF mac THEN src.logo ELSE FALSE]

\* ---------------------------------------------------------------- keys

Letters ==
    {"A", "B", "C", "D", "E", "F", "G", "H", "I", "J", "K", "L", "M",
     "N", "O", "P", "Q", "R", "S", "T", "U", "V", "W", "X", "Y", "Z"}

FunctionKeys ==
    {"F1", "F2", "F3", "F4", "F5", "F6", "F7", "F8", "F9", "F10", "F11", "F12",
     "F13", "F14", "F15", "F16", "F17", "F18", "F19", "F20", "F21", "F22", "F23", "F24"}

DigitKeys ==
    {"Key0", "Key1", "Key2", "Key3", "Key4", "Key5", "Key6", "Key7", "Key8", "Key9"}

NumKeys ==
    {"Num0", "Num1", "Num2", "Num3", "Num4", "Num5", "Num6", "Num7", "Num8", "Num9"}

NumpadCodes ==
    {"Numpad0", "Numpad1", "Numpad2", "Numpad3", "Numpad4",
     "Numpad5", "Numpad6", "Numpad7", "Numpad8", "Numpad9"}

\* enum Key: every variant.
Key ==
    {"ArrowDown", "ArrowLeft", "ArrowRight", "ArrowUp",
     "Escape", "Tab", "Backspace", "Enter", "Space",
     "Insert", "Delete", "Home", "End", "PageUp", "PageDown"}
    \cup NumKeys \cup DigitKeys \cup Letters \cup FunctionKeys \cup {"Unknown"}

\* glutin::event::VirtualKeyCode: every variant of the platform enum.
VirtualKeyCode ==
    DigitKeys \cup Letters \cup FunctionKeys \cup NumpadCodes \cup
    {"Escape", "Snapshot", "Scroll", "Pause", "Insert", "Home", "Delete", "End",
     "PageDown", "PageUp", "Left", "Up", "Right", "Down", "Back", "Return", "Space",
     "Compose", "Caret", "Numlock", "NumpadAdd", "NumpadDivide", "NumpadDecimal",
     "NumpadComma", "NumpadEnter", "NumpadEquals", "NumpadMultiply", "NumpadSubtract",
     "AbntC1", "AbntC2", "Apostrophe", "Apps", "Asterisk", "At", "Ax", "Backslash",
     "Calculator", "Capital", "Colon", "Comma", "Convert", "Equals", "Grave", "Kana",
     "Kanji", "LAlt", "LBracket", "LControl", "LShift", "LWin", "Mail", "MediaSelect",
     "MediaStop", "Minus", "Mute", "MyComputer", "NavigateForward", "NavigateBackward",
     "NextTrack", "NoConvert", "OEM102", "Period", "PlayPause", "Plus", "Power",
     "PrevTrack", "RAlt", "RBracket", "RControl", "RShift", "RWin", "Semicolon",
     "Slash", "Sleep", "Stop", "Sysrq", "Tab", "Underline", "Unlabeled", "VolumeDown",
     "VolumeUp", "Wake", "WebBack", "WebFavorites", "WebForward", "WebHome",
     "WebRefresh", "WebSearch", "WebStop", "Yen", "Copy", "Paste", "Cut"}

\* Numpad<d> => Key::Num<d>
NumOfNumpad(vk) ==
    CASE vk = "Numpad0" -> "Num0" [] vk = "Numpad1" -> "Num1" [] vk = "Numpad2" -> "Num2"
      [] vk = "Numpad3" -> "Num3" [] vk = "Numpad4" -> "Num4" [] vk = "Numpad5" -> "Num5"
      [] vk = "Numpad6" -> "Num6" [] vk = "Numpad7" -> "Num7" [] vk = "Numpad8" -> "Num8"
      [] vk = "Numpad9" -> "Num9"

\* A translation whose default arm is not Key::Unknown.
KeyFromWrongDefault(virtual_key_code) ==
    CASE virtual_key_code \in Letters \cup FunctionKeys \cup DigitKeys -> virtual_key_code
      [] OTHER -> "Space"

\* impl From<VirtualKeyCode> for Key.  Arms that keep the variant's name are
\* grouped; the last arm is the match's `_ => Key::Unknown`.
KeyFrom(virtual_key_code) ==
    CASE virtual_key_code \in Letters -> virtual_key_code
      [] virtual_key_code \in FunctionKeys -> virtual_key_code
      [] virtual_key_code \in
            {"Escape", "Insert", "Home", "Delete", "End", "PageDown", "PageUp"}
            -> virtual_key_code
      [] virtual_key_code = "Left" -> "ArrowLeft"
      [] virtual_key_code = "Up" -> "ArrowUp"
      [] virtual_key_code = "Right" -> "ArrowRight"
      [] virtual_key_code = "Down" -> "ArrowDown"
      [] virtual_key_code = "Back" -> "Backspace"
      [] virtual_key_code = "Return" -> "Enter"
      [] virtual_key_code = "Space" -> "Space"
      [] virtual_key_code \in DigitKeys -> virtual_key_code
      [] virtual_key_code \in NumpadCodes -> NumOfNumpad(virtual_key_code)
      [] OTHER -> "Unknown"

\* Result<T, ()>
Ok(v) == [ok |-> TRUE, val |-> v]

Err == [ok |-> FALSE, val |-> "Err"]

\* Err(()) of a conversion to a GUI event.
NoGuiEvent == [ok |-> FALSE, val |-> [type |-> "Err"]]

\* Key<d> => egui::Key::Num<d>
GuiNumOfDigit(k) ==
    CASE k = "Key0" -> "Num0" [] k = "Key1" -> "Num1" [] k = "Key2" -> "Num2"
      [] k = "Key3" -> "Num3" [] k = "Key4" -> "Num4" [] k = "Key5" -> "Num5"
      [] k = "Key6" -> "Num6" [] k = "Key7" -> "Num7" [] k = "Key8" -> "Num8"
      [] k = "Key9" -> "Num9"

\* impl TryFrom<Key> for egui::Key; the last arm is `_ => return Err(())`.
KeyTryInto(value) ==
    CASE value \in Letters -> Ok(value)
      [] value \in {"Escape", "Insert", "Home", "Delete", "End", "PageDown", "PageUp"}
            -> Ok(value)
      [] value \in {"ArrowLeft", "ArrowUp", "ArrowRight", "ArrowDown"} -> Ok(value)
      [] value \in {"Backspace", "Enter", "Space"} -> Ok(value)
      [] value \in DigitKeys -> Ok(GuiNumOfDigit(value))
      [] value \in NumKeys -> Ok(value)
      [] OTHER -> Err

\* input::vkeycode_to_egui_key (used by main.rs:421): Option<egui::Key>, the
\* platform code taken through Key to the GUI key.
vkeycode_to_egui_key(virtual_key_code) == KeyTryInto(KeyFrom(virtual_key_code))

\* -------------------------------------------------------------- camera
\* The camera is a grid position <<x, z>>, a yaw in quarter turns, a pitch in
\* steps of the look sensitivity, and the speed-boost flag.

\* Clamp of the pitch, in sensitivity steps.
PitchLimit == 2

\* Camera-local forward axis (from the yaw only).
ForwardAxis(yaw) ==
    CASE yaw = 0 -> <<0, -1>> [] yaw = 1 -> <<1, 0>> [] yaw = 2 -> <<0, 1>> [] yaw = 3 -> <<-1, 0>>

RightAxis(yaw) == ForwardAxis((yaw + 1) % 4)

Scale(k, v) == <<k * v[1], k * v[2]>>

\* Camera::go(direction, dt): speed * dt, doubled under speed boost, along the
\* camera-local axis of the direction.
CameraGo(cam, direction, dt) ==
    LET step == dt * (IF cam.speed_boost THEN 2 ELSE 1)
        axis == CASE direction = "Forward"  -> ForwardAxis(cam.yaw)
                  [] direction = "Backward" -> Scale(-1, ForwardAxis(cam.yaw))
                  [] direction = "Right"    -> RightAxis(cam.yaw)
                  [] direction = "Left"     -> Scale(-1, RightAxis(cam.yaw))
    IN  [cam EXCEPT !.pos = VecAdd(@, Scale(step, axis))]

\* The pitch at which the camera looks straight up or down and past which its
\* up direction inverts (a quarter turn, in sensitivity steps); the clamp
\* stops short of it.
QuarterTurn == PitchLimit + 1

\* A rotate that does not clamp the pitch.
CameraRotateUnclamped(cam, delta_x, delta_y) ==
    [cam EXCEPT !.yaw = (@ + delta_x) % 4, !.pitch = @ - delta_y]

\* Camera::rotate(delta_x, delta_y): yaw += delta_x, pitch -= delta_y, pitch clamped.
CameraRotate(cam, delta_x, delta_y) ==
    [cam EXCEPT !.yaw = (@ + delta_x) % 4,
                !.pitch = Clamp(@ - delta_y, -PitchLimit, PitchLimit)]

\* Camera::get_view_matrix(): a function of the pose.
get_view_matrix(cam) == <<"view", cam.pos, cam.yaw, cam.pitch>>

\* Camera::get_projection_matrix(): fixed field of view and aspect ratio.
get_projection_matrix(cam) == <<"proj">>

\* Mat4 product, kept symbolic.
MatMul(a, b) == <<"mul", a, b>>

MatIdentity == <<"identity">>

\* ------------------------------------------------------------- terrain

\* Half-width of the terrain grid, in cells.
GridHalf == 1

Cells == (-GridHalf..GridHalf) \X (-GridHalf..GridHalf)

\* Side of a grid cell in tenths of a world unit.
CellSize == 1000

\* Camera::get_ray_through_pixel + Terrain::intersect_with_ray: the camera looks
\* down at the cell under it, and the ray through the pointer meets the ground
\* off that cell by the pointer's offset from the centre pixel <<1, 1>>, along
\* the camera's right and forward axes; it misses when the camera looks at or
\* above the horizon or the point is off the grid.
IntersectThroughPixel(cam, pointer) ==
    LET p == VecAdd(cam.pos,
                    VecAdd(Scale(pointer[1] - 1, RightAxis(cam.yaw)),
                           Scale(1 - pointer[2], ForwardAxis(cam.yaw))))
    IN  IF cam.pitch < 0 /\ p \in Cells THEN FinitePoint(p) ELSE vec2_infinity

\* Terrain::intersect_with_ray(&camera.get_ray_through_pixel(pointer)): Some of
\* the 3D point <<x, y, z>> where the ray meets the surface, y being the height
\* there, or None.
intersect_with_ray(cam, pointer, heights) ==
    LET c == IntersectThroughPixel(cam, pointer)
    IN  IF c.finite
        THEN [some |-> TRUE, point |-> <<c.at[1], heights[c.at], c.at[2]>>]
        ELSE [some |-> FALSE, point |-> <<0, 0, 0>>]

\* main.rs:548-552: the cursor is the point's x and z, or the sentinel.
CursorOf(hit) ==
    IF hit.some THEN FinitePoint(<<hit.point[1], hit.point[3]>>) ELSE vec2_infinity

\* Squared distance between two cells, in squared tenths of a world unit.
Dist2(c, center) ==
    LET dx == c[1] - center[1]
        dz == c[2] - center[2]
    IN  (dx * dx + dz * dz) * CellSize * CellSize

\* Whether the brush centred on the cursor reaches cell c.
InBrush(c, center, size) == Dist2(c, center) <= size * size

\* The falloff weight is held in hundredths.
WeightOne == 100

\* The weight of the brush at cell c: one at the centre, decaying to zero at
\* the radius; rounded up to the next hundredth, so that a positive weight
\* stays positive.
Falloff(c, center, size) ==
    -((-((size * size - Dist2(c, center)) * WeightOne)) \div (size * size))

\* A brush that moves every cell of the grid.
shape_terrainEverywhere(t, delta_time, raise) ==
    [t EXCEPT !.heights =
        [c \in Cells |->
            t.heights[c] + (IF raise THEN 1 ELSE -1) * delta_time * WeightOne]]

\* Terrain::shape_terrain(delta_time, raise): raises or lowers the cells under
\* the brush, which is centred on the cursor, by delta_time times the weight
\* of the brush there.
shape_terrain(t, delta_time, raise) ==
    [t EXCEPT !.heights =
        [c \in Cells |->
            IF InBrush(c, t.cursor.at, t.brush.size)
            THEN t.heights[c] + (IF raise THEN 1 ELSE -1) * delta_time
                                * Falloff(c, t.cursor.at, t.brush.size)
            ELSE t.heights[c]]]

\* ---------------------------------------------------------------- state

VARIABLES
    macos,            \* cfg!(target_os = "macos"), fixed by the build
    in_focus,         \* Game::in_focus
    scale_factor,     \* Game::scale_factor
    input,            \* Game::input
    old_input,        \* Game::old_input
    gui_input,        \* Game::gui_input
    camera,           \* Game::camera
    terrain,          \* Game::terrain
    mode,             \* Game::mode
    transforms_data,  \* Game::transforms_data
    transforms_ubo,   \* contents of the GPU buffer Game::transforms_ubo
    control_flow,     \* the event loop's ControlFlow
    handled,          \* number of platform events handled since the last frame
    evlog,            \* history: the motion, modifier and focus events among them
    frames,           \* history: number of frames drawn so far
    raw,              \* the live RawInput
    raw_old,          \* the RawInput returned by the last renew()
    raw_now,          \* Instant::now()
    raw_returned,     \* history: the event lists of the snapshots returned so far
    raw_epochs,       \* history: the events pushed, grouped by the renew() calls between them
    conv,             \* the last conversion: input, result, and the GUI packet being built
    last              \* history: what the last step was and did

gameVars ==
    <<in_focus, scale_factor, input, old_input, gui_input, camera, terrain,
      mode, transforms_data, transforms_ubo, control_flow, handled, evlog, frames>>

rawVars == <<raw, raw_old, raw_now, raw_returned, raw_epochs>>

vars == <<macos, gameVars, rawVars, conv, last>>

\* Input::default() with camera_moved: true (Game::new).
InitialInput ==
    [forward |-> FALSE, back |-> FALSE, left |-> FALSE, right |-> FALSE,
     pointer |-> <<0, 0>>, pointer_moved |-> FALSE,
     pointer_delta |-> <<0, 0>>,
     scroll_delta |-> <<0, 0>>, scrolled |-> FALSE,
     camera_moved |-> TRUE,
     mouse_buttons |-> [primary |-> FALSE, secondary |-> FALSE, middle |-> FALSE],
     modifiers |-> NoModifiers,
     should_exit |-> FALSE]

DefaultInput == [InitialInput EXCEPT !.camera_moved = FALSE]

\* Camera::new(position, look_at, ..): above the terrain, looking down at it.
InitialCamera == [pos |-> <<0, 0>>, yaw |-> 0, pitch |-> -1, speed_boost |-> FALSE]

\* The transform block built in Game::new.
InitialTransforms ==
    [mvp   |-> MatMul(MatMul(get_projection_matrix(InitialCamera),
                             get_view_matrix(InitialCamera)), MatIdentity),
     proj  |-> get_projection_matrix(InitialCamera),
     view  |-> get_view_matrix(InitialCamera),
     model |-> MatIdentity,
     sun_vp |-> MatMul(<<"sun_proj">>, <<"sun_view">>)]

\* glNamedBufferStorage(.., null, ..): storage with no data written to it yet.
UninitializedBuffer ==
    [written |-> FALSE,
     data |-> [mvp |-> <<"?">>, proj |-> <<"?">>, view |-> <<"?">>, model |-> <<"?">>,
               sun_vp |-> <<"?">>]]

\* The same storage on a driver that hands it out zero-filled.
ZeroedBuffer ==
    [written |-> FALSE,
     data |-> [mvp |-> <<"0">>, proj |-> <<"0">>, view |-> <<"0">>, model |-> <<"0">>,
               sun_vp |-> <<"0">>]]

\* What the storage can hold before the first glNamedBufferSubData: its
\* contents are undefined, left over from elsewhere or zero-filled.
UninitializedBuffers == {UninitializedBuffer, ZeroedBuffer}

\* A step of the history variable `last`.
Step(kind) ==
    [kind |-> kind, wants |-> FALSE, dt |-> 0, steps |-> <<>>,
     sculpt_at |-> vec2_infinity, ray_cast |-> FALSE, pushed |-> FALSE]

\* A logged platform event, stamped with the focus and scale factor it met.
Logged(kind, vec, flag) ==
    [kind |-> kind, vec |-> vec, flag |-> flag, focus |-> in_focus, scale |-> scale_factor]

\* Scale factors the window can report.
ScaleFactors == {1, 2}

\* Brush sizes (in tenths) the terrain can start with.
InitialBrushSizes == {1, 500, 2000}

\* Game::new, with the contents the new buffer can have.
GameNew(sizes, scales, buffers) ==
    /\ in_focus = TRUE
    /\ scale_factor \in scales
    /\ input = InitialInput
    /\ old_input = DefaultInput
    /\ gui_input = [modifiers |-> NoGuiModifiers, events |-> <<>>,
                    scroll_delta |-> vec2_to_egui_vec2(<<0, 0>>),
                    pixels_per_point |-> scale_factor]
    /\ camera = InitialCamera
    /\ \E size \in sizes :
         terrain = [cursor |-> vec2_infinity,
                    brush |-> [size |-> size],
                    heights |-> [c \in Cells |-> 0]]
    /\ mode = [kind |-> "Editor", free_camera |-> FALSE, editor_mode |-> "Terrain"]
    /\ transforms_data = InitialTransforms
    /\ transforms_ubo \in buffers
    /\ control_flow = "Poll"
    /\ handled = 0
    /\ evlog = <<>>
    /\ last = Step("new")
    /\ frames = 0

\* Game::new where the contents of the new buffer play no part.
GameInit(sizes, scales) == GameNew(sizes, scales, {UninitializedBuffer})

\* ------------------------------------------------------- process_event

\* One platform event handled by Game::process_event: the event loop is still
\* running, and the handler leaves `input`, `gui_input`, `in_focus` and
\* `scale_factor` as given.
Handle(kind, logged, new_input, new_gui_input, new_focus, new_scale) ==
    /\ control_flow = "Poll"
    /\ handled < MaxEvents
    /\ frames < MaxFrames
    /\ input' = new_input
    /\ gui_input' = new_gui_input
    /\ in_focus' = new_focus
    /\ scale_factor' = new_scale
    /\ handled' = handled + 1
    /\ evlog' = evlog \o logged
    /\ last' = [Step(kind) EXCEPT
                  !.pushed = Len(new_gui_input.events) > Len(gui_input.events)]
    /\ UNCHANGED <<macos, old_input, camera, terrain, mode, transforms_data,
                   transforms_ubo, control_flow, frames, rawVars, conv>>

\* WindowEvent::CloseRequested
CloseRequested ==
    Handle("CloseRequested", <<>>,
           [input EXCEPT !.should_exit = TRUE], gui_input, in_focus, scale_factor)

\* WindowEvent::ScaleFactorChanged
ScaleFactorChanged(new_scale_factor) ==
    Handle("ScaleFactorChanged", <<>>,
           input, [gui_input EXCEPT !.pixels_per_point = new_scale_factor],
           in_focus, new_scale_factor)

\* The egui::Modifiers built in the ModifiersChanged arm.
GuiModifiersOf(state, mac) ==
    [alt     |-> state.alt,
     ctrl    |-> state.ctrl,
     shift   |-> state.shift,
     mac_cmd |-> IF mac THEN state.logo ELSE FALSE,
     command |-> IF mac THEN state.logo ELSE state.ctrl]

\* WindowEvent::ModifiersChanged(state)
ModifiersChanged(state) ==
    Handle("ModifiersChanged", <<Logged("ModifiersChanged", <<0, 0>>, state # NoModifiers)>>,
           [input EXCEPT !.modifiers =
               [alt |-> state.alt, ctrl |-> state.ctrl,
                shift |-> state.shift, logo |-> state.logo]],
           [gui_input EXCEPT !.modifiers = GuiModifiersOf(state, macos)],
           in_focus, scale_factor)

\* WindowEvent::CursorMoved { position }
CursorMoved(position) ==
    LET pointer == VecDiv(position, scale_factor)
    IN  Handle("CursorMoved", <<>>,
               [input EXCEPT !.pointer = pointer, !.pointer_moved = TRUE],
               [gui_input EXCEPT !.events =
                   Append(@, [type |-> "PointerMoved", pos |-> vec2_to_egui_pos2(pointer)])],
               in_focus, scale_factor)

\* glutin::event::MouseButton, with one representative of Other(_).
PlatformButtons == {"Left", "Right", "Middle", "Other"}

\* The first match on the button in the MouseInput arm.
SetMouseButton(buttons, button, pressed) ==
    CASE button = "Left"   -> [buttons EXCEPT !.primary = pressed]
      [] button = "Right"  -> [buttons EXCEPT !.secondary = pressed]
      [] button = "Middle" -> [buttons EXCEPT !.middle = pressed]
      [] OTHER -> buttons

\* The second match on the button in the MouseInput arm: Option<PointerButton>.
GuiButtonOf(button) ==
    CASE button = "Left"   -> Ok("Primary")
      [] button = "Right"  -> Ok("Secondary")
      [] button = "Middle" -> Ok("Middle")
      [] OTHER -> Err

\* WindowEvent::MouseInput { button, state }
MouseInput(button, pressed) ==
    LET gui_button == GuiButtonOf(button)
    IN  Handle("MouseInput", <<>>,
               [input EXCEPT !.mouse_buttons = SetMouseButton(@, button, pressed)],
               IF gui_button.ok
               THEN [gui_input EXCEPT !.events =
                        Append(@, [type |-> "PointerButton",
                                   pos |-> vec2_to_egui_pos2(input.pointer),
                                   button |-> gui_button.val, pressed |-> pressed,
                                   modifiers |-> gui_input.modifiers])]
               ELSE gui_input,
               in_focus, scale_factor)

\* A Focused arm that clears the core's modifiers and forgets the GUI's.
FocusedClearsCoreOnly(focused) ==
    Handle("Focused", <<Logged("Focused", <<0, 0>>, focused)>>,
           [input EXCEPT !.modifiers = NoModifiers], gui_input, focused, scale_factor)

\* A Focused arm that starts the whole input over.
FocusedResetsInput(focused) ==
    Handle("Focused", <<Logged("Focused", <<0, 0>>, focused)>>,
           DefaultInput,
           [gui_input EXCEPT !.modifiers = NoGuiModifiers],
           focused, scale_factor)

\* WindowEvent::Focused(focused)
Focused(focused) ==
    Handle("Focused", <<Logged("Focused", <<0, 0>>, focused)>>,
           [input EXCEPT !.modifiers = NoModifiers],
           [gui_input EXCEPT !.modifiers = NoGuiModifiers],
           focused, scale_factor)

\* is_printable_char, on code points.
is_printable_char(chr) ==
    LET is_in_private_use_area == \/ chr \in 57344..63743
                                  \/ chr \in 983040..1048573
                                  \/ chr \in 1048576..1114109
        is_ascii_control == chr \in 0..31 \/ chr = 127
    IN  ~is_in_private_use_area /\ ~is_ascii_control

\* WindowEvent::ReceivedCharacter(ch)
ReceivedCharacter(ch) ==
    Handle("ReceivedCharacter", <<>>, input,
           IF is_printable_char(ch) /\ ~gui_input.modifiers.ctrl /\ ~gui_input.modifiers.mac_cmd
           THEN [gui_input EXCEPT !.events = Append(@, [type |-> "Text", text |-> ch])]
           ELSE gui_input,
           in_focus, scale_factor)

\* The `_ => {}` arms: an event process_event has no arm for.
OtherEvent == Handle("Other", <<>>, input, gui_input, in_focus, scale_factor)

\* The match on the key code in the KeyboardInput arm (W, A, S, D).
SetMovementKey(in, virtual_key_code, pressed) ==
    CASE virtual_key_code = "W" -> [in EXCEPT !.forward = pressed]
      [] virtual_key_code = "A" -> [in EXCEPT !.left = pressed]
      [] virtual_key_code = "S" -> [in EXCEPT !.back = pressed]
      [] virtual_key_code = "D" -> [in EXCEPT !.right = pressed]
      [] OTHER -> in

\* WindowEvent::KeyboardInput { state, virtual_keycode: Some(code) }
KeyboardInput(virtual_key_code, pressed) ==
    LET key == vkeycode_to_egui_key(virtual_key_code)
    IN  Handle("KeyboardInput", <<>>,
               SetMovementKey(input, virtual_key_code, pressed),
               IF key.ok
               THEN [gui_input EXCEPT !.events =
                        Append(@, [type |-> "Key", key |-> key.val, pressed |-> pressed,
                                   modifiers |-> gui_input.modifiers])]
               ELSE gui_input,
               in_focus, scale_factor)

\* A motion arm that forgets the focus guard.
MouseMotionInputUnguarded(in, delta, focus, scale) ==
    [in EXCEPT !.pointer_delta = VecAdd(@, VecDiv(delta, scale)),
               !.pointer_moved = TRUE]

\* A motion arm that overwrites the delta instead of adding to it.
MouseMotionInputOverwrites(in, delta, focus, scale) ==
    IF focus
    THEN [in EXCEPT !.pointer_delta = VecDiv(delta, scale), !.pointer_moved = TRUE]
    ELSE in

\* The DeviceEvent::MouseMotion arm, guarded by `if self.in_focus`.
MouseMotionInput(in, delta, focus, scale) ==
    IF focus
    THEN [in EXCEPT !.pointer_delta = VecAdd(@, VecDiv(delta, scale)),
                    !.pointer_moved = TRUE]
    ELSE in

\* DeviceEvent::MouseMotion { delta }
MouseMotion(delta) ==
    Handle("MouseMotion", <<Logged("MouseMotion", delta, FALSE)>>,
           MouseMotionInput(input, delta, in_focus, scale_factor),
           gui_input, in_focus, scale_factor)

\* DeviceEvent::MouseWheel { delta: LineDelta(x, y) }
MouseWheel(delta) ==
    LET scroll_delta == VecDiv(delta, scale_factor)
    IN  Handle("MouseWheel", <<>>,
               [input EXCEPT !.scroll_delta = VecAdd(@, scroll_delta),
                             !.scrolled = TRUE],
               [gui_input EXCEPT !.scroll_delta = vec2_to_egui_vec2(scroll_delta)],
               in_focus, scale_factor)

\* --------------------------------------------------------- draw_editor
\* The body of draw_editor works on a frame record g: the fields of Game it
\* writes, the local `state.free_camera`, and the history of the frame.

FrameOf(in) ==
    [input |-> in, camera |-> camera, terrain |-> terrain,
     transforms_data |-> transforms_data, transforms_ubo |-> transforms_ubo,
     free_camera |-> mode.free_camera,
     steps |-> <<>>, sculpt_at |-> vec2_infinity, ray_cast |-> FALSE]

Did(g, name) == [g EXCEPT !.steps = Append(@, name)]

\* main.rs:497-498: state.free_camera and camera.speed_boost follow the input.
ProcessInput(g) ==
    [g EXCEPT !.free_camera = g.input.mouse_buttons.secondary,
              !.camera.speed_boost = g.input.modifiers.shift]

\* One `if self.input.<key> { camera.go(..); camera_moved = true }`.
GoIf(g, held, direction, delta_time) ==
    IF held
    THEN Did([g EXCEPT !.camera = CameraGo(@, direction, delta_time),
                       !.input.camera_moved = TRUE], direction)
    ELSE g

\* main.rs:503-518: the four movement keys, in the order of the code.
MoveCamera(g, delta_time) ==
    LET g1 == GoIf(g, g.input.forward, "Forward", delta_time)
        g2 == GoIf(g1, g1.input.left, "Left", delta_time)
        g3 == GoIf(g2, g2.input.back, "Backward", delta_time)
    IN  GoIf(g3, g3.input.right, "Right", delta_time)

\* main.rs:520-525
RotateCamera(g) ==
    IF g.input.pointer_moved
    THEN Did([g EXCEPT !.camera = CameraRotate(@, g.input.pointer_delta[1],
                                               g.input.pointer_delta[2]),
                       !.input.camera_moved = TRUE], "rotate")
    ELSE g

\* A camera update that does not look at free_camera.
UpdateCameraAlways(g, delta_time) == RotateCamera(MoveCamera(g, delta_time))

\* main.rs:500-526
UpdateCamera(g, delta_time) ==
    IF g.free_camera THEN RotateCamera(MoveCamera(g, delta_time)) ELSE g

\* A frame that writes the transform block whether or not the camera moved.
UpdateTransformsWhenever(g) ==
    LET view == get_view_matrix(g.camera)
        proj == get_projection_matrix(g.camera)
        data == [g.transforms_data EXCEPT
                   !.view = view, !.proj = proj,
                   !.mvp = MatMul(MatMul(proj, view), g.transforms_data.model)]
    IN  Did([g EXCEPT !.transforms_data = data,
                      !.transforms_ubo = [written |-> TRUE, data |-> data]],
            "transforms")

\* main.rs:528-544: recompute the transform block and write it to the buffer.
UpdateTransforms(g) ==
    IF g.input.camera_moved
    THEN LET view == get_view_matrix(g.camera)
             proj == get_projection_matrix(g.camera)
             data == [g.transforms_data EXCEPT
                        !.view = view, !.proj = proj,
                        !.mvp = MatMul(MatMul(proj, view), g.transforms_data.model)]
         IN  Did([g EXCEPT !.transforms_data = data,
                           !.transforms_ubo = [written |-> TRUE, data |-> data]],
                 "transforms")
    ELSE g

\* A frame that recasts the ray only when the camera moved.
UpdateCursorOnCameraOnly(g) ==
    IF g.input.camera_moved
    THEN LET hit == intersect_with_ray(g.camera, g.input.pointer, g.terrain.heights)
         IN  Did([g EXCEPT !.terrain.cursor = CursorOf(hit), !.ray_cast = TRUE], "ray")
    ELSE g

\* main.rs:546-553: cast the ray through the pointer and place the cursor.
UpdateCursor(g) ==
    IF g.input.pointer_moved \/ g.input.camera_moved
    THEN LET hit == intersect_with_ray(g.camera, g.input.pointer, g.terrain.heights)
         IN  Did([g EXCEPT !.terrain.cursor = CursorOf(hit), !.ray_cast = TRUE], "ray")
    ELSE g

\* The resize without its clamp.
ResizeBrushUnclamped(size, y) == size - 15 * y

\* main.rs:557: (size - y * 1.5).clamp(0.1, 200.0), in tenths.
ResizeBrush(size, y) == Clamp(size - 15 * y, BrushMin, BrushMax)

\* main.rs:555-559
UpdateBrush(g) ==
    IF g.input.scrolled
    THEN Did([g EXCEPT !.terrain.brush.size = ResizeBrush(@, g.input.scroll_delta[2])],
             "brush")
    ELSE g

\* A sculpt that does not look at the cursor.
SculptWheneverPrimary(g, delta_time) ==
    IF g.input.mouse_buttons.primary
    THEN Did([g EXCEPT !.terrain = shape_terrain(@, delta_time, ~g.input.modifiers.ctrl),
                       !.sculpt_at = g.terrain.cursor], "sculpt")
    ELSE g

\* main.rs:561-564
Sculpt(g, delta_time) ==
    IF g.input.mouse_buttons.primary /\ g.terrain.cursor.finite
    THEN Did([g EXCEPT !.terrain = shape_terrain(@, delta_time, ~g.input.modifiers.ctrl),
                       !.sculpt_at = g.terrain.cursor], "sculpt")
    ELSE g

\* A frame that sculpts before it casts the ray.
EditorInputSculptsFirst(g, delta_time) ==
    UpdateBrush(UpdateCursor(UpdateTransforms(
        Sculpt(UpdateCamera(ProcessInput(g), delta_time), delta_time))))

\* main.rs:496-565: the branch taken when the GUI does not want the input.
EditorInput(g, delta_time) ==
    Sculpt(UpdateBrush(UpdateCursor(UpdateTransforms(
        UpdateCamera(ProcessInput(g), delta_time)))), delta_time)

\* main.rs:491-495: the branch taken when the GUI wants the input.
HideCursor(g) == Did([g EXCEPT !.terrain.cursor = vec2_infinity], "hide_cursor")

\* Input::renew(): the per-frame fields go back to neutral, the held state stays.
InputRenew(in) ==
    [in EXCEPT !.pointer_delta = <<0, 0>>, !.pointer_moved = FALSE,
               !.scroll_delta = <<0, 0>>, !.scrolled = FALSE,
               !.camera_moved = FALSE]

\* egui::RawInput::take(): what stays in gui_input after the GUI took the packet.
GuiInputTake(gi) ==
    [gi EXCEPT !.events = <<>>, !.scroll_delta = vec2_to_egui_vec2(<<0, 0>>),
               !.pixels_per_point = 0]

\* A frame that handles the input whatever the GUI wants, then hides the cursor.
GuiOrEditorIgnoresGui(g, delta_time, wants_input) ==
    IF wants_input THEN HideCursor(EditorInput(g, delta_time)) ELSE EditorInput(g, delta_time)

\* main.rs:491-565: `if self.gui.wants_input() { .. } else { .. }`
GuiOrEditor(g, delta_time, wants_input) ==
    IF wants_input THEN HideCursor(g) ELSE EditorInput(g, delta_time)

\* A frame that hands back the menu instead of the editor.
StoredModeMenu(m, free_camera) == [m EXCEPT !.kind = "Menu", !.free_camera = free_camera]

\* main.rs:581: Ok(GameMode::Editor { state, mode }), stored by main.rs:474.
StoredMode(m, free_camera) == [m EXCEPT !.kind = "Editor", !.free_camera = free_camera]

\* draw_editor(delta_time, mode, state), with the GUI's answers for the frame:
\* should_exit from layout_and_interact and wants_input().
draw_editor(delta_time, wants_input, should_exit) ==
    LET g0 == FrameOf([input EXCEPT !.should_exit = @ \/ should_exit])
        g  == GuiOrEditor(g0, delta_time, wants_input)
    IN  /\ frames < MaxFrames
        /\ gui_input' = GuiInputTake(gui_input)
        /\ camera' = g.camera
        /\ terrain' = g.terrain
        /\ transforms_data' = g.transforms_data
        /\ transforms_ubo' = g.transforms_ubo
        /\ old_input' = g.input
        /\ input' = InputRenew(g.input)
        /\ mode' = StoredMode(mode, g.free_camera)
        /\ frames' = frames + 1
        /\ last' = [Step("Frame") EXCEPT !.wants = wants_input, !.dt = delta_time,
                       !.steps = Append(g.steps, "draw"), !.sculpt_at = g.sculpt_at,
                       !.ray_cast = g.ray_cast]

\* main.rs:469-470: unimplemented!() panics and the frame does nothing else.
unimplemented ==
    /\ last' = Step("panic")
    /\ UNCHANGED <<input, old_input, gui_input, camera, terrain, mode,
                   transforms_data, transforms_ubo, frames>>

\* update_and_render: the time since the last frame, then the mode's frame.
update_and_render(delta_time, wants_input, should_exit) ==
    IF mode.kind = "Editor"
    THEN draw_editor(delta_time, wants_input, should_exit)
    ELSE unimplemented

\* Event::MainEventsCleared
MainEventsCleared(delta_times, wants, exits) ==
    /\ control_flow = "Poll"
    /\ UNCHANGED <<rawVars, conv>>
    /\ IF ~input.should_exit
       THEN /\ \E delta_time \in delta_times, wants_input \in wants, should_exit \in exits :
                 update_and_render(delta_time, wants_input, should_exit)
            /\ handled' = 0
            /\ evlog' = <<>>
            /\ UNCHANGED <<macos, in_focus, scale_factor, control_flow>>
       ELSE /\ control_flow' = "Exit"
            /\ handled' = 0
            /\ evlog' = <<>>
            /\ last' = Step("Exit")
            /\ UNCHANGED <<macos, in_focus, scale_factor, input, old_input, gui_input,
                           camera, terrain, mode, transforms_data, transforms_ubo, frames>>

\* The sculpt of one frame on its own (main.rs:561-564), with the cursor, the
\* brush size, the frame time and the ctrl modifier it meets.
ShapeTerrain(center, size, delta_time, raise) ==
    /\ frames < MaxFrames
    /\ terrain' = shape_terrain([terrain EXCEPT !.cursor = FinitePoint(center),
                                                !.brush.size = size],
                                delta_time, raise)
    /\ frames' = frames + 1
    /\ last' = [Step("shape_terrain") EXCEPT
                   !.dt = delta_time, !.sculpt_at = FinitePoint(center),
                   !.steps = <<IF raise THEN "raise" ELSE "lower">>]
    /\ UNCHANGED <<macos, in_focus, scale_factor, input, old_input, gui_input, camera,
                   mode, transforms_data, transforms_ubo, control_flow, handled, evlog,
                   rawVars, conv>>

\* ------------------------------------------------------------ RawInput

\* Clock readings explored.
MaxTime == 3
\* renew() calls explored.
MaxRenews == 3
\* Events pushed in all.
MaxPushes == 3

\* The concatenation of a sequence of sequences.
RECURSIVE Concat(_)
Concat(seqs) == IF seqs = <<>> THEN <<>> ELSE Head(seqs) \o Concat(Tail(seqs))

\* RawInput::new(now, screen_size, scale_factor); pointer_pos starts at infinity.
RawInputNew(now, screen_size, scale) ==
    [game_start |-> now, frame_start |-> now, delta_time |-> 0,
     screen_size |-> screen_size,
     pointer_pos |-> vec2_infinity,
     pointer_delta |-> <<0, 0>>,
     scale_factor |-> scale,
     scroll_delta |-> <<0, 0>>,
     modifiers |-> NoModifiers,
     events |-> <<>>]

\* A renew() that copies the events out and leaves them in self.
RawInputRenewKeepsEvents(self, now) ==
    [returned |-> self,
     self |-> [self EXCEPT !.frame_start = now,
                           !.delta_time = now - self.frame_start,
                           !.pointer_delta = <<0, 0>>,
                           !.scroll_delta = <<0, 0>>]]

\* A renew() that takes the modifiers too.
RawInputRenewTakesModifiers(self, now) ==
    [returned |-> self,
     self |-> [self EXCEPT !.frame_start = now,
                           !.delta_time = now - self.frame_start,
                           !.pointer_delta = <<0, 0>>,
                           !.scroll_delta = <<0, 0>>,
                           !.modifiers = NoModifiers,
                           !.events = <<>>]]

\* RawInput::renew(&mut self) -> Self with Instant::now() = now: the returned
\* snapshot and what is left in self (mem::replace and mem::take move the old
\* value out and leave the new value, or the default, behind).
RawInputRenew(self, now) ==
    LET delta_time == now - self.frame_start
    IN  [returned |->
            [game_start |-> self.game_start,
             frame_start |-> self.frame_start,
             delta_time |-> self.delta_time,
             screen_size |-> self.screen_size,
             pointer_pos |-> self.pointer_pos,
             pointer_delta |-> self.pointer_delta,
             scale_factor |-> self.scale_factor,
             scroll_delta |-> self.scroll_delta,
             modifiers |-> self.modifiers,
             events |-> self.events],
         self |->
            [self EXCEPT !.frame_start = now,
                         !.delta_time = delta_time,
                         !.pointer_delta = <<0, 0>>,
                         !.scroll_delta = <<0, 0>>,
                         !.events = <<>>]]

\* enum Event, as a record with every variant's fields.
EventOf(type, key, button, pressed, modifiers, pos) ==
    [type |-> type, key |-> key, button |-> button, pressed |-> pressed,
     modifiers |-> modifiers, pos |-> pos]

EventCopy == EventOf("Copy", "Unknown", "Unknown", FALSE, NoModifiers, <<0, 0>>)

EventCut == EventOf("Cut", "Unknown", "Unknown", FALSE, NoModifiers, <<0, 0>>)

EventKey(key, pressed, modifiers) ==
    EventOf("Key", key, "Unknown", pressed, modifiers, <<0, 0>>)

EventPointerMoved(pos) ==
    EventOf("PointerMoved", "Unknown", "Unknown", FALSE, NoModifiers, pos)

EventMouseButtonPressed(pos, button, pressed, modifiers) ==
    EventOf("MouseButtonPressed", "Unknown", button, pressed, modifiers, pos)

\* enum MouseButton
MouseButton == {"Primary", "Secondary", "Middle", "Unknown"}

\* RawInput::new at one of those clock readings, screen sizes and scale factors.
RawInit(nows, sizes, scales) ==
    /\ raw_now \in nows
    /\ \E screen_size \in sizes, scale \in scales :
         raw = RawInputNew(raw_now, screen_size, scale)
    /\ raw_old = raw
    /\ raw_returned = <<>>
    /\ raw_epochs = <<<<>>>>

\* The clock advances.
RawTick ==
    /\ raw_now < MaxTime
    /\ raw_now' = raw_now + 1
    /\ last' = Step("RawTick")
    /\ UNCHANGED <<macos, gameVars, conv>>
    /\ UNCHANGED <<raw, raw_old, raw_returned, raw_epochs>>

\* self.events.push(event)
RawPush(event) ==
    /\ Len(raw_returned) < MaxRenews
    /\ Len(Concat(raw_epochs)) < MaxPushes
    /\ raw' = [raw EXCEPT !.events = Append(@, event)]
    /\ raw_epochs' = [raw_epochs EXCEPT ![Len(raw_epochs)] = Append(@, event)]
    /\ last' = Step("RawPush")
    /\ UNCHANGED <<macos, gameVars, conv>>
    /\ UNCHANGED <<raw_old, raw_now, raw_returned>>

\* A write to one of the pub fields that hold state across frames or
\* accumulate within one: modifiers, pointer_pos, pointer_delta, scroll_delta.
RawWrite(field, value) ==
    /\ raw' = [raw EXCEPT ![field] = value]
    /\ raw[field] # value
    /\ last' = Step("RawWrite")
    /\ UNCHANGED <<macos, gameVars, conv>>
    /\ UNCHANGED <<raw_old, raw_now, raw_returned, raw_epochs>>

\* let old = input.renew()
RawRenew ==
    /\ Len(raw_returned) < MaxRenews
    /\ LET r == RawInputRenew(raw, raw_now)
       IN  /\ raw' = r.self
           /\ raw_old' = r.returned
           /\ raw_returned' = Append(raw_returned, r.returned.events)
    /\ raw_epochs' = Append(raw_epochs, <<>>)
    /\ last' = Step("RawRenew")
    /\ UNCHANGED <<macos, gameVars, conv, raw_now>>

\* --------------------------------------------------------- conversions

\* Events the GUI packet holds at most.
MaxPacket == 1

\* The match on the button inside impl TryFrom<&Event> for egui::Event.
PointerButtonOf(button) ==
    CASE button = "Primary"   -> Ok("Primary")
      [] button = "Secondary" -> Ok("Secondary")
      [] button = "Middle"    -> Ok("Middle")
      [] OTHER -> Err

\* A conversion that lets the function keys through to the GUI.
EventTryFromKeepsFunctionKeys(value, mac) ==
    IF value.type = "Key"
    THEN IF value.key \in {"Tab", "Unknown"}
         THEN NoGuiEvent
         ELSE Ok([type |-> "Key", key |-> value.key, pressed |-> value.pressed,
                  modifiers |-> ModifiersInto(value.modifiers, mac)])
    ELSE IF value.type = "MouseButtonPressed" /\ value.button = "Unknown"
         THEN NoGuiEvent
         ELSE Ok([type |-> value.type])

\* impl TryFrom<&Event> for egui::Event
EventTryFrom(value, mac) ==
    CASE value.type = "Copy" -> Ok([type |-> "Copy"])
      [] value.type = "Cut" -> Ok([type |-> "Cut"])
      [] value.type = "Key" ->
            LET egui_key == KeyTryInto(value.key)
            IN  IF egui_key.ok
                THEN Ok([type |-> "Key", key |-> egui_key.val, pressed |-> value.pressed,
                         modifiers |-> ModifiersInto(value.modifiers, mac)])
                ELSE NoGuiEvent
      [] value.type = "PointerMoved" ->
            Ok([type |-> "PointerMoved", pos |-> vec2_to_egui_pos2(value.pos)])
      [] value.type = "MouseButtonPressed" ->
            LET button == PointerButtonOf(value.button)
            IN  IF button.ok
                THEN Ok([type |-> "PointerButton", pos |-> vec2_to_egui_pos2(value.pos),
                         button |-> button.val, pressed |-> value.pressed,
                         modifiers |-> ModifiersInto(value.modifiers, mac)])
                ELSE NoGuiEvent

\* Modifier states the conversions are tried with.
SomeModifiers ==
    {NoModifiers,
     [alt |-> FALSE, ctrl |-> TRUE, shift |-> TRUE, logo |-> FALSE],
     [alt |-> TRUE, ctrl |-> FALSE, shift |-> FALSE, logo |-> TRUE]}

\* Pointer positions the conversions are tried with.
SomePositions == {<<0, 0>>, <<3, 5>>}

\* Keys tried pressed and released under every one of those modifier states.
SomeKeys == {"A", "Enter", "F1", "Tab", "Unknown"}

\* The events converted: every key pressed with no modifier, some keys and
\* every button in every combination, and the pointer at those positions.
Events ==
    {EventCopy, EventCut}
    \cup {EventKey(k, TRUE, NoModifiers) : k \in Key}
    \cup {EventKey(k, p, m) : k \in SomeKeys, p \in BOOLEAN, m \in SomeModifiers}
    \cup {EventPointerMoved(pos) : pos \in SomePositions}
    \cup {EventMouseButtonPressed(<<3, 5>>, b, p, m) :
            b \in MouseButton, p \in BOOLEAN, m \in SomeModifiers}

ConvInit ==
    conv = [code |-> "A", key |-> "A", event |-> EventCopy, result |-> NoGuiEvent,
            packet |-> <<>>, before |-> <<>>, did |-> "none"]

\* Key::from(virtual_key_code)
TranslateKey(virtual_key_code) ==
    /\ conv' = [conv EXCEPT !.code = virtual_key_code, !.key = KeyFrom(virtual_key_code),
                            !.did = "key"]
    /\ last' = Step("TranslateKey")
    /\ UNCHANGED <<macos, gameVars, rawVars>>

\* if let Ok(gui_event) = egui::Event::try_from(&event) { packet.push(gui_event) }
ConvertEvent(event) ==
    /\ Len(conv.packet) < MaxPacket
    /\ LET result == EventTryFrom(event, macos)
       IN  conv' = [conv EXCEPT !.event = event, !.result = result,
                                !.before = conv.packet,
                                !.packet = IF result.ok THEN Append(@, result.val) ELSE @,
                                !.did = "event"]
    /\ last' = Step("ConvertEvent")
    /\ UNCHANGED <<macos, gameVars, rawVars>>

\* The GUI takes the packet.
TakePacket ==
    /\ conv.packet # <<>>
    /\ conv' = [conv EXCEPT !.packet = <<>>, !.before = <<>>, !.did = "take"]
    /\ last' = Step("TakePacket")
    /\ UNCHANGED <<macos, gameVars, rawVars>>

\* ------------------------------------------------------ specifications

\* The RawInput and the conversions, left alone.
RawIdle ==
    /\ raw_now = 0
    /\ raw = RawInputNew(0, <<8, 6>>, 1)
    /\ raw_old = raw
    /\ raw_returned = <<>>
    /\ raw_epochs = <<<<>>>>

\* Frame times explored.
DeltaTimes == {1}

\* Scroll-wheel line deltas the platform reports.
WheelDeltas == {<<0, 80>>, <<0, -80>>}

\* Scrolling and frames: the brush size.
InitBrush ==
    /\ macos = FALSE
    /\ GameInit(InitialBrushSizes, ScaleFactors)
    /\ RawIdle
    /\ ConvInit

NextBrush ==
    \/ \E delta \in WheelDeltas : MouseWheel(delta)
    \/ \E new_scale_factor \in ScaleFactors : ScaleFactorChanged(new_scale_factor)
    \/ MainEventsCleared(DeltaTimes, BOOLEAN, {FALSE})

SpecBrush == InitBrush /\ [][NextBrush]_vars

\* Raw pointer-motion deltas the platform reports.
MotionDeltas == {<<2, -2>>}

\* Pointer motion, focus changes, the free-camera button, and frames.
InitPointer ==
    /\ macos = FALSE
    /\ GameInit({500}, {1})
    /\ RawIdle
    /\ ConvInit

NextPointer ==
    \/ \E delta \in MotionDeltas : MouseMotion(delta)
    \/ Focused(~in_focus)
    \/ \E new_scale_factor \in ScaleFactors \ {scale_factor} :
          ScaleFactorChanged(new_scale_factor)
    \/ MouseInput("Right", ~input.mouse_buttons.secondary)
    \/ MainEventsCleared(DeltaTimes, BOOLEAN, {FALSE})

SpecPointer == InitPointer /\ [][NextPointer]_vars

\* Modifier states the platform reports.
ReportedModifiers ==
    {NoModifiers,
     [alt |-> FALSE, ctrl |-> TRUE, shift |-> TRUE, logo |-> FALSE],
     [alt |-> TRUE, ctrl |-> FALSE, shift |-> FALSE, logo |-> TRUE]}

\* Key codes pressed and released: a movement key and a key the GUI has no use for.
TypedCodes == {"W"}

\* Modifier changes, focus changes, keys and frames.
InitMods ==
    /\ macos \in BOOLEAN
    /\ GameInit({500}, {1})
    /\ RawIdle
    /\ ConvInit

NextMods ==
    \/ \E state \in ReportedModifiers : ModifiersChanged(state)
    \/ \E focused \in BOOLEAN : Focused(focused)
    \/ \E code \in TypedCodes, pressed \in BOOLEAN : KeyboardInput(code, pressed)
    \/ MainEventsCleared(DeltaTimes, BOOLEAN, {FALSE})

SpecMods == InitMods /\ [][NextMods]_vars

\* Pointer positions the platform reports (physical pixels).
CursorPositions == {<<0, 0>>, <<1, 1>>}

\* Raw pointer motion that turns the camera by a quarter turn.
TurnDeltas == {<<1, 0>>}

\* Moving, turning, pointing and sculpting, in frames the GUI leaves alone.
InitFrame ==
    /\ macos = FALSE
    /\ GameInit({500}, {1})
    /\ RawIdle
    /\ ConvInit

NextFrame ==
    \/ KeyboardInput("W", ~input.forward)
    \/ MouseInput("Left", ~input.mouse_buttons.primary)
    \/ MouseInput("Right", ~input.mouse_buttons.secondary)
    \/ \E delta \in TurnDeltas : MouseMotion(delta)
    \/ \E position \in CursorPositions \ {input.pointer} : CursorMoved(position)
    \/ MainEventsCleared(DeltaTimes, {FALSE}, {FALSE})

SpecFrame == InitFrame /\ [][NextFrame]_vars

\* The shift key going down and up.
ShiftOnly == [alt |-> FALSE, ctrl |-> FALSE, shift |-> TRUE, logo |-> FALSE]

\* Everything a frame acts on, pending while the GUI takes some frames.
InitCapture ==
    /\ macos = FALSE
    /\ GameInit({500}, {1})
    /\ RawIdle
    /\ ConvInit

NextCapture ==
    \/ KeyboardInput("W", ~input.forward)
    \/ MouseInput("Left", ~input.mouse_buttons.primary)
    \/ MouseInput("Right", ~input.mouse_buttons.secondary)
    \/ \E delta \in TurnDeltas : MouseMotion(delta)
    \/ \E delta \in WheelDeltas : MouseWheel(delta)
    \/ ModifiersChanged(IF input.modifiers.shift THEN NoModifiers ELSE ShiftOnly)
    \/ MainEventsCleared(DeltaTimes, BOOLEAN, {FALSE})

SpecCapture == InitCapture /\ [][NextCapture]_vars

\* Moving and turning the camera, with the GUI taking some frames.
InitTransforms ==
    /\ macos = FALSE
    /\ GameNew({500}, {1}, UninitializedBuffers)
    /\ RawIdle
    /\ ConvInit

NextTransforms ==
    \/ KeyboardInput("W", ~input.forward)
    \/ MouseInput("Right", ~input.mouse_buttons.secondary)
    \/ \E delta \in TurnDeltas : MouseMotion(delta)
    \/ MainEventsCleared(DeltaTimes, BOOLEAN, {FALSE})

SpecTransforms == InitTransforms /\ [][NextTransforms]_vars

\* Raw pointer motion up and down, by one step and by more than the whole
\* pitch range.
PitchDeltas == {<<0, 1>>, <<0, -1>>, <<0, 6>>, <<0, -6>>}

\* Looking up and down in free camera.
InitPitch ==
    /\ macos = FALSE
    /\ GameInit({500}, {1})
    /\ RawIdle
    /\ ConvInit

NextPitch ==
    \/ MouseInput("Right", ~input.mouse_buttons.secondary)
    \/ \E delta \in PitchDeltas : MouseMotion(delta)
    \/ MainEventsCleared(DeltaTimes, {FALSE}, {FALSE})

SpecPitch == InitPitch /\ [][NextPitch]_vars

\* Brush centres, brush sizes (in tenths) and frame times the sculpt is tried
\* with: the middle, an edge and a corner of the grid; radii of half a cell,
\* one cell, one and a half and two cells.
SculptCenters == {<<0, 0>>, <<1, 0>>, <<1, 1>>}

SculptSizes == {500, 1000, 1500, 2000}

SculptTimes == {0, 1}

\* Brush applications on their own.
InitSculpt ==
    /\ macos = FALSE
    /\ GameInit({500}, {1})
    /\ RawIdle
    /\ ConvInit

NextSculpt ==
    \E center \in SculptCenters, size \in SculptSizes, delta_time \in SculptTimes,
       raise \in BOOLEAN :
        ShapeTerrain(center, size, delta_time, raise)

SpecSculpt == InitSculpt /\ [][NextSculpt]_vars

\* Pointer positions over the terrain and off it (physical pixels).
SculptPointers == {<<1, 1>>, <<3, 1>>}

\* The ctrl key going down and up.
CtrlOnly == [alt |-> FALSE, ctrl |-> TRUE, shift |-> FALSE, logo |-> FALSE]

\* The primary button, the pointer on and off the terrain, raise and lower,
\* with the GUI taking some frames.
InitPrimary ==
    /\ macos = FALSE
    /\ GameInit({500}, {1})
    /\ RawIdle
    /\ ConvInit

NextPrimary ==
    \/ MouseInput("Left", ~input.mouse_buttons.primary)
    \/ \E position \in SculptPointers \ {input.pointer} : CursorMoved(position)
    \/ ModifiersChanged(IF input.modifiers.ctrl THEN NoModifiers ELSE CtrlOnly)
    \/ MainEventsCleared(DeltaTimes, BOOLEAN, {FALSE})

SpecPrimary == InitPrimary /\ [][NextPrimary]_vars

\* The four movement keys.
MovementCodes == {"W", "A", "S", "D"}

\* Raw pointer motion to the side and upwards at once.
LookDeltas == {<<1, -1>>}

\* The movement keys, the secondary button and the raw pointer, with the GUI
\* taking some frames.
InitCamera ==
    /\ macos = FALSE
    /\ GameInit({500}, {1})
    /\ RawIdle
    /\ ConvInit

NextCamera ==
    \/ \E code \in MovementCodes : KeyboardInput(code, TRUE)
    \/ KeyboardInput("W", FALSE)
    \/ MouseInput("Right", ~input.mouse_buttons.secondary)
    \/ \E delta \in LookDeltas : MouseMotion(delta)
    \/ MainEventsCleared(DeltaTimes, BOOLEAN, {FALSE})

SpecCamera == InitCamera /\ [][NextCamera]_vars

\* Characters the platform reports: a letter and a control character.
TypedChars == {97, 9}

\* A close request at any time, the forward key and frames in which the GUI
\* may ask to exit before it, and every arm of process_event after it.
InitExit ==
    /\ macos = FALSE
    /\ GameInit({500}, {1})
    /\ RawIdle
    /\ ConvInit

NextExit ==
    \/ CloseRequested
    \/ KeyboardInput("W", ~input.forward)
    \/ MainEventsCleared(DeltaTimes, BOOLEAN, BOOLEAN)
    \/ input.should_exit /\ ScaleFactorChanged(3 - scale_factor)
    \/ input.should_exit /\
          ModifiersChanged(IF input.modifiers.shift THEN NoModifiers ELSE ShiftOnly)
    \/ input.should_exit /\ CursorMoved(<<1, 1>>)
    \/ input.should_exit /\ MouseInput("Right", ~input.mouse_buttons.secondary)
    \/ input.should_exit /\ Focused(~in_focus)
    \/ input.should_exit /\ \E ch \in TypedChars : ReceivedCharacter(ch)
    \/ input.should_exit /\ MouseMotion(<<1, 0>>)
    \/ input.should_exit /\ MouseWheel(<<0, 80>>)
    \/ input.should_exit /\ OtherEvent

SpecExit == InitExit /\ [][NextExit]_vars

\* The game, left alone.
GameIdle == macos = FALSE /\ GameInit({500}, {1})

\* Events pushed to the RawInput.
PushedEvents ==
    {EventCopy, EventKey("A", TRUE, NoModifiers), EventPointerMoved(<<3, 5>>)}

\* Pushes and renew() calls in any interleaving.
InitRawEvents == GameIdle /\ RawInit({0}, {<<8, 6>>}, ScaleFactors) /\ ConvInit

NextRawEvents ==
    \/ \E event \in PushedEvents : RawPush(event)
    \/ RawRenew
    \/ RawTick

SpecRawEvents == InitRawEvents /\ [][NextRawEvents]_vars

\* Values written to the fields of the RawInput.
RawFieldValues ==
    [modifiers |-> {NoModifiers, [alt |-> FALSE, ctrl |-> TRUE, shift |-> TRUE, logo |-> FALSE]},
     pointer_pos |-> {FinitePoint(<<4, 2>>)},
     pointer_delta |-> {<<2, -2>>},
     scroll_delta |-> {<<0, -4>>}]

\* Field writes, pushes and renew() calls in any interleaving.
InitRawFields == GameIdle /\ RawInit({0, 1}, {<<8, 6>>, <<4, 2>>}, ScaleFactors) /\ ConvInit

NextRawFields ==
    \/ \E field \in DOMAIN RawFieldValues :
          \E value \in RawFieldValues[field] : RawWrite(field, value)
    \/ RawPush(EventCopy)
    \/ RawRenew

SpecRawFields == InitRawFields /\ [][NextRawFields]_vars

\* The translation of every platform key code.
InitKeys == GameIdle /\ RawIdle /\ ConvInit

NextKeys == \E code \in VirtualKeyCode : TranslateKey(code)

SpecKeys == InitKeys /\ [][NextKeys]_vars

\* The conversion of every event into the GUI packet.
InitConv ==
    /\ macos \in BOOLEAN
    /\ GameInit({500}, {1})
    /\ RawIdle
    /\ ConvInit

NextConv ==
    \/ \E event \in Events : ConvertEvent(event)
    \/ TakePacket

SpecConv == InitConv /\ [][NextConv]_vars

\* ------------------------------------------------------------- claims

BrushInRange == terrain.brush.size >= BrushMin /\ terrain.brush.size <= BrushMax

\* The step is a frame in which the GUI did not take the input.
EditorFrame == last'.kind = "Frame" /\ ~last'.wants

\* C1: the brush size starts and stays inside [0.1, 200.0] (1..2000 tenths), and
\* a frame that applies a scroll delta y sets it to size - 1.5 * y pinned to the
\* nearer limit when that value lies outside the range.
C1_BrushSizeClamped ==
    /\ BrushInRange
    /\ [][/\ BrushInRange'
          /\ (EditorFrame /\ input.scrolled) =>
                LET want == terrain.brush.size - 15 * input.scroll_delta[2]
                IN  terrain'.brush.size =
                        IF want < BrushMin THEN BrushMin
                        ELSE IF want > BrushMax THEN BrushMax ELSE want]_vars

\* C1 witness: a frame applied a scroll delta larger than the whole range and
\* left the size exactly at the minimum.
C1_Witness ==
    /\ last.kind = "Frame"
    /\ \E i \in 1..Len(last.steps) : last.steps[i] = "brush"
    /\ old_input.scroll_delta[2] * 15 > BrushMax
    /\ terrain.brush.size = BrushMin

\* C2: every pushed event is in exactly one returned snapshot, the one returned
\* by the first renew() after the push, in push order: the k-th returned
\* snapshot holds exactly the events pushed between the (k-1)-th and the k-th
\* renew(), the live snapshot holds exactly the events pushed since the last
\* renew(), and none right after a renew().
C2_EventsReturnedOnce ==
    /\ Len(raw_returned) = Len(raw_epochs) - 1
    /\ \A k \in 1..Len(raw_returned) : raw_returned[k] = raw_epochs[k]
    /\ raw.events = raw_epochs[Len(raw_epochs)]
    /\ Concat(raw_returned) \o raw.events = Concat(raw_epochs)
    /\ last.kind = "RawRenew" => raw.events = <<>>

\* C2 witness: two renew() calls each returned events pushed before it, and
\* nothing is left in the live snapshot.
C2_Witness ==
    /\ last.kind = "RawRenew"
    /\ Len(raw_returned) = 2
    /\ Len(raw_returned[1]) = 2
    /\ Len(raw_returned[2]) = 1
    /\ raw_returned[1][1] # raw_returned[1][2]
    /\ raw.events = <<>>

PersistentFields == {"modifiers", "pointer_pos", "screen_size", "scale_factor", "game_start"}

\* C3: renew() leaves pointer delta zero, scroll delta zero and no events in the
\* live snapshot, and the persistent fields keep their values both in the live
\* snapshot and in the returned one.
C3_RenewResetsPerFrameOnly ==
    [][last'.kind = "RawRenew" =>
          /\ raw'.pointer_delta = <<0, 0>>
          /\ raw'.scroll_delta = <<0, 0>>
          /\ raw'.events = <<>>
          /\ \A f \in PersistentFields : raw'[f] = raw[f] /\ raw_old'[f] = raw[f]]_vars

\* C3 witness: a renew() of a snapshot with modifiers held, a pointer position,
\* and nonzero deltas and events to reset.
C3_Witness ==
    /\ last.kind = "RawRenew"
    /\ raw.modifiers # NoModifiers
    /\ raw.pointer_pos.finite
    /\ raw_old.pointer_delta # <<0, 0>>
    /\ raw_old.scroll_delta # <<0, 0>>
    /\ raw_old.events # <<>>
    /\ raw.pointer_delta = <<0, 0>>
    /\ raw.events = <<>>

\* The platform event handled by this step.
ThisEvent == evlog'[Len(evlog')]

\* C4, as claimed: a motion event handled while free camera is inactive leaves
\* the accumulated pointer delta unchanged.
C4_MotionOnlyInFreeCamera ==
    [][(last'.kind = "MouseMotion" /\ ~mode.free_camera) =>
          input'.pointer_delta = input.pointer_delta]_vars

\* C4, amended: a motion event adds its delta, divided by the scale factor, to
\* the accumulated pointer delta exactly when the window has input focus,
\* whether or not free camera is active; free camera gates only the use of the
\* delta: a frame in which free camera is not active (secondary button up, or
\* the GUI taking the input) leaves the camera's yaw and pitch unchanged.
C4_MotionOnlyInFocus ==
    [][/\ last'.kind = "MouseMotion" =>
            input'.pointer_delta =
                IF in_focus
                THEN <<input.pointer_delta[1] + Quot(ThisEvent.vec[1], scale_factor),
                       input.pointer_delta[2] + Quot(ThisEvent.vec[2], scale_factor)>>
                ELSE input.pointer_delta
       /\ (last'.kind = "Frame" /\ (last'.wants \/ ~input.mouse_buttons.secondary)) =>
            (camera'.yaw = camera.yaw /\ camera'.pitch = camera.pitch)]_vars

\* C4 witness: motion was accumulated in focus while free camera was inactive.
C4_Witness ==
    /\ last.kind = "MouseMotion"
    /\ ~mode.free_camera
    /\ ~input.mouse_buttons.secondary
    /\ in_focus
    /\ input.pointer_delta # <<0, 0>>

\* The sum of the logged motion events that met a focused window, each divided
\* by the scale factor it met.
RECURSIVE SumMotion(_)
SumMotion(log) ==
    IF log = <<>> THEN <<0, 0>>
    ELSE LET e == Head(log)
             rest == SumMotion(Tail(log))
         IN  IF e.kind = "MouseMotion" /\ e.focus
             THEN <<Quot(e.vec[1], e.scale) + rest[1], Quot(e.vec[2], e.scale) + rest[2]>>
             ELSE rest

\* C5: the pointer delta a frame consumes (the one renew() returns, and the one
\* the camera is rotated by when it is rotated) is the sum of the motion events
\* handled in focus since the previous renew(), each divided by the scale
\* factor current at that event; events handled out of focus add nothing, and
\* the live delta is zero after the frame.
C5_PointerDeltaIsSum ==
    [][/\ input'.pointer_delta = (IF last'.kind = "Frame" THEN <<0, 0>> ELSE SumMotion(evlog'))
       /\ last'.kind = "Frame" =>
            /\ old_input'.pointer_delta = SumMotion(evlog)
            /\ (\E i \in 1..Len(last'.steps) : last'.steps[i] = "rotate") =>
                 LET sum == SumMotion(evlog)
                 IN  /\ camera'.yaw = (camera.yaw + sum[1]) % 4
                     /\ camera'.pitch =
                          IF camera.pitch - sum[2] < -PitchLimit THEN -PitchLimit
                          ELSE IF camera.pitch - sum[2] > PitchLimit THEN PitchLimit
                          ELSE camera.pitch - sum[2]]_vars

\* C5 witness: a frame rotated the camera by a delta that only two motion
\* events, met under different scale factors, add up to.
C5_Witness ==
    /\ last.kind = "Frame"
    /\ \E i \in 1..Len(last.steps) : last.steps[i] = "rotate"
    /\ old_input.pointer_delta = <<3, -3>>
    /\ input.pointer_delta = <<0, 0>>

AllClear == input.modifiers = NoModifiers /\ gui_input.modifiers = NoGuiModifiers

\* C6: a focus-lost event leaves every modifier flag false in the core input
\* and in the GUI input, and flags that are all false stay false over every
\* step that is not a modifiers-changed event (frames, renew() and the GUI's
\* take of its packet included).
C6_FocusLostClearsModifiers ==
    [][/\ (last'.kind = "Focused" /\ ~in_focus') => AllClear'
       /\ (AllClear /\ last'.kind # "ModifiersChanged") => AllClear']_vars

\* C6 witness: modifiers were reported held, then the focus was lost, and the
\* flags are all false.
C6_Witness ==
    /\ Len(evlog) >= 2
    /\ last.kind = "Focused"
    /\ evlog[Len(evlog) - 1].kind = "ModifiersChanged"
    /\ evlog[Len(evlog) - 1].flag
    /\ evlog[Len(evlog)].kind = "Focused"
    /\ ~evlog[Len(evlog)].flag
    /\ ~in_focus
    /\ AllClear

\* The steps of a frame that handles its input, in the order of the code.
FrameOrder ==
    <<"Forward", "Left", "Backward", "Right", "rotate", "transforms", "ray",
      "brush", "sculpt", "draw">>

PlaceOf(step) == CHOOSE i \in DOMAIN FrameOrder : FrameOrder[i] = step

InOrder(steps) ==
    \A i, j \in DOMAIN steps : i < j => PlaceOf(steps[i]) < PlaceOf(steps[j])

C8_GuiCaptureSuppressesCore ==
    [][(last'.kind = "Frame" /\ last'.wants) =>
          /\ camera' = camera
          /\ transforms_data' = transforms_data
          /\ transforms_ubo' = transforms_ubo
          /\ terrain'.brush = terrain.brush
          /\ terrain'.heights = terrain.heights
          /\ ~last'.ray_cast
          /\ terrain'.cursor = vec2_infinity]_vars

\* C8 witness: the GUI took a frame while a movement key, both mouse buttons
\* and shift were held and a turn and a scroll were pending, after an earlier
\* frame had sculpted; the camera is still at its first pose and the brush at its first size.
C8_Witness ==
    /\ last.kind = "Frame"
    /\ last.wants
    /\ old_input.forward
    /\ old_input.mouse_buttons.primary
    /\ old_input.mouse_buttons.secondary
    /\ old_input.modifiers.shift
    /\ old_input.scrolled
    /\ old_input.pointer_delta # <<0, 0>>
    /\ \E c \in Cells : terrain.heights[c] > 0
    /\ camera.pos = InitialCamera.pos
    /\ camera.yaw = InitialCamera.yaw
    /\ terrain.brush.size = 500
    /\ terrain.cursor = vec2_infinity

\* The platform key codes the translation gives a key of their own: letters,
\* F1-F24, the navigation and editing keys, arrows, digits and numpad digits.
MappedCodes ==
    Letters \cup FunctionKeys \cup DigitKeys \cup NumpadCodes \cup
    {"Escape", "Insert", "Home", "Delete", "End", "PageDown", "PageUp",
     "Left", "Up", "Right", "Down", "Back", "Return", "Space"}

\* C9: the translation of a platform key code always yields a variant of Key,
\* Unknown for every code outside the mapped set and another variant for
\* every code inside it.
C9_KeyTranslationTotal ==
    conv.did = "key" =>
        /\ conv.key \in Key
        /\ conv.code \notin MappedCodes => conv.key = "Unknown"
        /\ conv.code \in MappedCodes => conv.key # "Unknown"

\* C9 witness: a code outside the mapped set was translated to Unknown.
C9_Witness ==
    /\ conv.did = "key"
    /\ conv.code = "LShift"
    /\ conv.key = "Unknown"

\* An event whose key or button the GUI has no equivalent for.
NoGuiEquivalent(e) ==
    \/ e.type = "Key" /\ e.key \in FunctionKeys \cup {"Tab", "Unknown"}
    \/ e.type = "MouseButtonPressed" /\ e.button = "Unknown"

\* What every conversion does, whatever it carries of the modifiers: an event
\* with no GUI equivalent converts to the failure value and leaves the packet
\* as it was; every other event converts to one GUI event, appended to the
\* packet, with the same pressed flag and position.
ConversionIsLossy(carried(_, _)) ==
    conv.did = "event" =>
        LET e == conv.event
            r == conv.result
        IN  IF NoGuiEquivalent(e)
            THEN ~r.ok /\ conv.packet = conv.before
            ELSE /\ r.ok
                 /\ conv.packet = Append(conv.before, r.val)
                 /\ e.type \in {"Key", "MouseButtonPressed"} =>
                      /\ r.val.pressed = e.pressed
                      /\ carried(e.modifiers, r.val.modifiers)
                 /\ e.type \in {"PointerMoved", "MouseButtonPressed"} =>
                      r.val.pos = [x |-> e.pos[1], y |-> e.pos[2]]

\* The GUI event carries all four modifier flags, logo as the command key.
AllFourCarried(m, g) ==
    /\ g.alt = m.alt
    /\ g.ctrl = m.ctrl
    /\ g.shift = m.shift
    /\ g.mac_cmd = m.logo

\* The GUI event carries alt, ctrl and shift, and the logo flag on macOS only;
\* its command flag is logo on macOS and ctrl elsewhere.
CarriedForPlatform(m, g) ==
    /\ g.alt = m.alt
    /\ g.ctrl = m.ctrl
    /\ g.shift = m.shift
    /\ g.mac_cmd = (macos /\ m.logo)
    /\ g.command = (IF macos THEN m.logo ELSE m.ctrl)

\* C10 as stated: a converted event carries the same pressed flag, position
\* and modifiers, the logo flag among them.
C10_SameModifiers == ConversionIsLossy(AllFourCarried)

\* C10: converting an event never fails otherwise than by the failure value: an
\* event with no GUI equivalent converts to the failure value and leaves the
\* packet as it was; every other event converts to one GUI event, appended to
\* the packet, with the same pressed flag and position, the same alt, ctrl and
\* shift, and the logo flag on macOS only (the command flag is logo on macOS
\* and ctrl elsewhere).
C10_LossyGuiConversion == ConversionIsLossy(CarriedForPlatform)

\* C10 witness: a function key was converted to the failure value and the
\* packet did not grow.
C10_Witness ==
    /\ conv.did = "event"
    /\ conv.event.type = "Key"
    /\ conv.event.key = "F5"
    /\ conv.event.pressed
    /\ ~conv.result.ok
    /\ conv.packet = <<>>

\* The frame of this step ran the named step.
Ran(name) == \E i \in DOMAIN last'.steps : last'.steps[i] = name

\* C11: a frame recomputes the transform block and writes it to the buffer
\* only when camera_moved is set in that frame (by Game::new, or by the
\* frame's own movement or rotation); a frame in which camera_moved is not set
\* leaves the block and the buffer as they were; and a frame that writes
\* leaves view and projection those of the camera, the combined matrix equal
\* to projection * view * model, and the buffer holding the whole block.
C11_TransformsOnlyWhenCameraMoved ==
    [][last'.kind = "Frame" =>
          /\ ~old_input'.camera_moved =>
                (transforms_data' = transforms_data /\ transforms_ubo' = transforms_ubo)
          /\ Ran("transforms") <=> (old_input'.camera_moved /\ ~last'.wants)
          /\ ~Ran("transforms") =>
                (transforms_data' = transforms_data /\ transforms_ubo' = transforms_ubo)
          /\ Ran("transforms") =>
                /\ transforms_data'.view = get_view_matrix(camera')
                /\ transforms_data'.proj = get_projection_matrix(camera')
                /\ transforms_data'.mvp =
                      MatMul(MatMul(transforms_data'.proj, transforms_data'.view),
                             transforms_data'.model)
                /\ transforms_data'.model = transforms_data.model
                /\ transforms_data'.sun_vp = transforms_data.sun_vp
                /\ transforms_ubo' = [written |-> TRUE, data |-> transforms_data']]_vars

\* C11 witness: a frame in which the camera moved has written a block that is
\* not the initial one, and a later frame in which nothing moved left it.
C11_Witness ==
    /\ last.kind = "Frame"
    /\ ~last.wants
    /\ ~old_input.camera_moved
    /\ transforms_ubo.written
    /\ transforms_ubo.data = transforms_data
    /\ transforms_data # InitialTransforms

\* C12: a frame the GUI does not capture, in which the pointer moved (a
\* cursor or motion event since the last frame) or the camera moved, casts the
\* ray through the current pointer position from the frame's camera pose and
\* sets the cursor to the x and z of the hit, or to the infinite sentinel when
\* the ray misses; a frame the GUI does not capture in which neither moved
\* casts no ray and leaves the cursor as it was.
C12_CursorRecomputedWhenMoved ==
    [][(last'.kind = "Frame" /\ ~last'.wants) =>
          LET hit == intersect_with_ray(camera', input.pointer, terrain.heights)
          IN  IF input.pointer_moved \/ old_input'.camera_moved
              THEN /\ last'.ray_cast
                   /\ hit.some =>
                        /\ terrain'.cursor.finite
                        /\ terrain'.cursor.at = <<hit.point[1], hit.point[3]>>
                   /\ ~hit.some => terrain'.cursor = vec2_infinity
              ELSE /\ ~last'.ray_cast
                   /\ terrain'.cursor = terrain.cursor]_vars

\* C12 witness: with the camera at rest, a pointer move alone made a frame
\* recast the ray, and the cursor is on another cell than the first one found.
C12_Witness ==
    /\ last.kind = "Frame"
    /\ last.ray_cast
    /\ old_input.pointer_moved
    /\ ~old_input.camera_moved
    /\ terrain.cursor.finite
    /\ terrain.cursor # CursorOf(intersect_with_ray(camera, InitialInput.pointer,
                                                    terrain.heights))

\* C12, the miss: a frame cast the ray, and it missed the terrain.
C12_WitnessMiss ==
    /\ last.kind = "Frame"
    /\ last.ray_cast
    /\ terrain.cursor = vec2_infinity

\* C13: whatever the pointer deltas, the pitch stays within the clamp, which
\* is strictly inside the quarter turn up and down: the up direction never
\* inverts.
C13_PitchStaysClamped ==
    /\ camera.pitch >= -PitchLimit
    /\ camera.pitch <= PitchLimit
    /\ -QuarterTurn < camera.pitch
    /\ camera.pitch < QuarterTurn

\* C13 witness: a frame rotated the camera by a delta that alone spans more
\* than the whole pitch range, and the pitch is at the upper clamp.
C13_Witness ==
    /\ last.kind = "Frame"
    /\ \E i \in DOMAIN last.steps : last.steps[i] = "rotate"
    /\ -old_input.pointer_delta[2] > 2 * PitchLimit
    /\ camera.pitch = PitchLimit

C15_SculptIffPrimaryAndFinite ==
    [][last'.kind = "Frame" =>
          /\ Ran("sculpt") <=>
                (~last'.wants /\ input.mouse_buttons.primary /\ terrain'.cursor.finite)
          /\ Ran("sculpt") =>
                terrain'.heights =
                    shape_terrain([terrain' EXCEPT !.heights = terrain.heights],
                                  last'.dt, ~input.modifiers.ctrl).heights
          /\ ~Ran("sculpt") => terrain'.heights = terrain.heights
          /\ ~terrain'.cursor.finite => terrain'.heights = terrain.heights]_vars

\* C15 witness: after a frame that sculpted, a frame the GUI left alone found
\* the primary button held and the ray missing the terrain, and did not sculpt.
C15_Witness ==
    /\ last.kind = "Frame"
    /\ ~last.wants
    /\ last.ray_cast
    /\ old_input.mouse_buttons.primary
    /\ terrain.cursor = vec2_infinity
    /\ \A i \in DOMAIN last.steps : last.steps[i] # "sculpt"
    /\ \E c \in Cells : terrain.heights[c] # 0

\* How many times a step ran in the frame just taken.
Times(name) == Cardinality({i \in DOMAIN last'.steps : last'.steps[i] = name})

\* The sum of the camera-local axes of the held movement keys.
HeldAxes(in, yaw) ==
    VecAdd(VecAdd(IF in.forward THEN ForwardAxis(yaw) ELSE <<0, 0>>,
                  IF in.back THEN Scale(-1, ForwardAxis(yaw)) ELSE <<0, 0>>),
           VecAdd(IF in.right THEN RightAxis(yaw) ELSE <<0, 0>>,
                  IF in.left THEN Scale(-1, RightAxis(yaw)) ELSE <<0, 0>>))

\* C16: a frame changes the camera's position or orientation only if the
\* secondary button is held at frame time and the GUI does not want the
\* input; in such a frame each held movement key moves the camera exactly once
\* by that frame's delta time, the camera is rotated once if the pointer moved
\* and not at all otherwise, and a frame that moved or rotated the camera had
\* camera_moved set when it reached the transform step.
C16_CameraChangesOnlyInFreeLook ==
    [][last'.kind = "Frame" =>
          LET free == input.mouse_buttons.secondary /\ ~last'.wants
              step == last'.dt * (IF input.modifiers.shift THEN 2 ELSE 1)
              acted == \/ Ran("Forward") \/ Ran("Left") \/ Ran("Backward")
                       \/ Ran("Right") \/ Ran("rotate")
          IN  /\ ~free => /\ camera'.pos = camera.pos
                          /\ camera'.yaw = camera.yaw
                          /\ camera'.pitch = camera.pitch
                          /\ ~acted
              /\ free =>
                    /\ Times("Forward") = (IF input.forward THEN 1 ELSE 0)
                    /\ Times("Left") = (IF input.left THEN 1 ELSE 0)
                    /\ Times("Backward") = (IF input.back THEN 1 ELSE 0)
                    /\ Times("Right") = (IF input.right THEN 1 ELSE 0)
                    /\ Times("rotate") = (IF input.pointer_moved THEN 1 ELSE 0)
                    /\ camera'.pos =
                          VecAdd(camera.pos, Scale(step, HeldAxes(input, camera.yaw)))
                    /\ IF input.pointer_moved
                       THEN /\ camera'.yaw = (camera.yaw + input.pointer_delta[1]) % 4
                            /\ camera'.pitch =
                                  Clamp(camera.pitch - input.pointer_delta[2],
                                        -PitchLimit, PitchLimit)
                       ELSE /\ camera'.yaw = camera.yaw
                            /\ camera'.pitch = camera.pitch
              /\ acted => old_input'.camera_moved /\ Ran("transforms")]_vars

\* C16 witness: the second frame moved the camera forward and to the right and
\* rotated it, each once, and left it away from where it started.
C16_Witness ==
    /\ last.kind = "Frame"
    /\ frames = 2
    /\ ~last.wants
    /\ \E i, j, k \in DOMAIN last.steps :
          /\ last.steps[i] = "Forward"
          /\ last.steps[j] = "Right"
          /\ last.steps[k] = "rotate"
    /\ old_input.camera_moved
    /\ camera.pos # InitialCamera.pos
    /\ camera.yaw # InitialCamera.yaw

\* C17: every variant of Key other than Unknown is the translation of at least
\* one platform key code: wherever a code has been translated, each such
\* variant is what the translation makes of some code.
C17_EveryKeyTranslated ==
    conv.did = "key" =>
        \A key \in Key \ {"Unknown"} :
            \E virtual_key_code \in VirtualKeyCode : KeyFrom(virtual_key_code) = key

\* What the translation does reach: every variant other than Unknown and Tab
\* is the translation of some code, and no code, the platform's Tab included,
\* translates to Tab.
C17_EveryKeyButTabTranslated ==
    conv.did = "key" =>
        /\ \A key \in Key \ {"Unknown", "Tab"} :
              \E virtual_key_code \in VirtualKeyCode : KeyFrom(virtual_key_code) = key
        /\ conv.key # "Tab"

\* C17 witness: the platform's Tab was translated, to Unknown.
C17_Witness ==
    /\ conv.did = "key"
    /\ conv.code = "Tab"
    /\ conv.key = "Unknown"

\* C18: at every draw the buffer has been written and holds the view and the
\* projection of the camera as it is.
C18_BufferHoldsCurrentPose ==
    last.kind = "Frame" =>
        /\ transforms_ubo.written
        /\ transforms_ubo.data.view = get_view_matrix(camera)
        /\ transforms_ubo.data.proj = get_projection_matrix(camera)

\* What the frames do keep: a buffer that has been written holds the view and
\* the projection of the camera as it is, and a buffer never written still has
\* the contents it was created with, under a camera that never left its
\* initial pose.
C18_WrittenBufferHoldsCurrentPose ==
    last.kind = "Frame" =>
        IF transforms_ubo.written
        THEN /\ transforms_ubo.data.view = get_view_matrix(camera)
             /\ transforms_ubo.data.proj = get_projection_matrix(camera)
             /\ transforms_ubo.data = transforms_data
        ELSE /\ transforms_ubo \in UninitializedBuffers
             /\ get_view_matrix(camera) = get_view_matrix(InitialCamera)

\* C18 witness: the GUI took the first frame, the second frame was left to the
\* editor, and both drew from a buffer nothing had been written to.
C18_Witness ==
    /\ last.kind = "Frame"
    /\ frames = 2
    /\ ~last.wants
    /\ ~transforms_ubo.written
    /\ transforms_ubo.data.view # get_view_matrix(camera)

\* C19: the game mode is Editor in every reachable state, with the sub-mode
\* the game started in, and no frame has run into the unimplemented Menu or
\* Game branch.
C19_ModeIsAlwaysEditor ==
    /\ mode.kind = "Editor"
    /\ mode.editor_mode = "Terrain"
    /\ last.kind # "panic"

\* C19 witness: two frames ran and the second stored the editor mode back with
\* a changed state, free camera on.
C19_Witness ==
    /\ frames = 2
    /\ last.kind = "Frame"
    /\ mode.kind = "Editor"
    /\ mode.free_camera

\* C20: from the moment the exit flag is set, by a close request or by the
\* GUI, every step leaves it set and none is a frame: nothing is updated,
\* drawn or renewed, the handlers in between leave the flag alone, and the
\* next main-events-cleared, and nothing else, sets the control flow to Exit.
C20_NoFrameAfterCloseRequested ==
    [][input.should_exit =>
          /\ input'.should_exit
          /\ last'.kind \notin {"Frame", "panic"}
          /\ frames' = frames
          /\ <<camera, terrain, old_input, mode, transforms_data, transforms_ubo>>' =
                <<camera, terrain, old_input, mode, transforms_data, transforms_ubo>>
          /\ handled' = 0 <=> last'.kind = "Exit"
          /\ last'.kind = "Exit" <=> control_flow' = "Exit"]_vars

\* C20 witness: a close request arrived with the forward key held, the window
\* then lost the focus, and the next main-events-cleared ended the loop after
\* the one frame that had run before.
C20_Witness ==
    /\ control_flow = "Exit"
    /\ last.kind = "Exit"
    /\ input.should_exit
    /\ input.forward
    /\ ~in_focus
    /\ frames = 1
    /\ ~old_input.should_exit

====
